---- MODULE Spec2Model ----
(***************************************************************************)
(* Model of src/script.js (the Bollywood word-unscramble game): the        *)
(* DataLoader, State and Game singletons, the persistent localStorage, and *)
(* the page lifecycle of game.html (DOMContentLoaded handler, Game.init,   *)
(* the keydown router, the click handlers and the delayed win callback).   *)
(*                                                                         *)
(* Conventions.  JS arrays are TLA+ sequences, so positions of             *)
(* scrambledLetters and selectedIndices are 1-based here (slot i of the    *)
(* model is slot i-1 of the code) and an empty slot (null) is NoIdx.       *)
(* Level indices are data and stay 0-based.  JS objects used as maps       *)
(* (State.unlocked, State.completed, DataLoader.cache, localStorage) are   *)
(* functions whose DOMAIN is the set of keys present.                      *)
(***************************************************************************)
EXTENDS Integers, Sequences, FiniteSets, TLC

\* ------------------------------------------------------------------ bounds
\* Largest level number a game.html URL is opened with.
MaxLevel == 2
\* Largest number of pending handleWin timeouts of one page.
MaxTimers == 2
\* Largest number of units.json fetches one page issues for a pack.
MaxFetches == 2

\* ------------------------------------------------------- program constants
StartCoins == 100
HintCost == 20
SkipCost == 50
WinReward == 10

\* null / undefined of a string-valued place (a missing URL parameter, an
\* absent id field, Game.currentPackId before Game.init).  Used as an object
\* key JS turns both into a string, as here.
Null == "null"
Undefined == "undefined"
\* parseInt of a missing or non-numeric level parameter; also stands for the
\* null of Game.currentLevelIndex before Game.init.  Level numbers of the
\* model are never negative, so the value is free.
NaN == -1
\* null in selectedIndices (pool positions are 1..n).
NoIdx == 0

\* --------------------------------------------------------- the served data
\* data/allLevelDetails_v1.json.  An absent id is Undefined; an absent star
\* gate is 0 (line 112 treats null, undefined and 0 alike).  "Gold" carries
\* an explicit id that differs from its name.
PacksJson ==
    << [name |-> "Classic", id |-> Undefined, lvls |-> 2, star |-> 0,
        is_star |-> TRUE, type |-> Undefined],
       [name |-> "Gold", id |-> "g1", lvls |-> 2, star |-> 0,
        is_star |-> FALSE, type |-> Undefined] >>

\* data/event_allLevelDetails_v1.json
EventsJson ==
    << [name |-> "Fest", id |-> Undefined, lvls |-> 2, star |-> 1,
        is_star |-> FALSE, type |-> Undefined] >>

\* data/<name>/units.json and data/Events/<name>/units.json: raw answers,
\* one string (a sequence of characters) per level index.
UnitsJson(url) ==
    CASE url = <<"data", "Classic">> ->
             << <<"a", " ", "a", "b">>, <<"A", "b">> >>
      [] url = <<"data", "Gold">> ->
             << <<"a", "b">>, <<"b", "a">> >>
      [] url = <<"data/Events", "Fest">> ->
             << <<"b", "a">>, <<" ">> >>
      [] OTHER -> << >>

\* ------------------------------------------------------------ JS helpers
RECURSIVE SeqFilter(_, _)
\* Array.prototype.filter with the test "member of keep".
SeqFilter(s, keep) ==
    IF s = << >> THEN << >>
    ELSE (IF Head(s) \in keep THEN << Head(s) >> ELSE << >>)
         \o SeqFilter(Tail(s), keep)

\* String.prototype.toUpperCase on one character.
toUpperCase(c) ==
    CASE c = "a" -> "A"
      [] c = "b" -> "B"
      [] OTHER -> c

\* rawWord.replace(/\s+/g, '').toUpperCase()
NormalizeWord(rawWord) ==
    LET stripped == SeqFilter(rawWord, {"a", "b", "A", "B"})
    IN  [i \in 1..Len(stripped) |-> toUpperCase(stripped[i])]

\* obj[key] = value on an object used as a map.
Put(obj, key, value) ==
    [k \in (DOMAIN obj) \cup {key} |-> IF k = key THEN value ELSE obj[k]]

\* The empty object {}.
EmptyObj == [k \in {} |-> 0]

RECURSIVE toDigits(_)
\* String(n) for a non-negative integer: its decimal digits.
toDigits(n) ==
    IF n < 10 THEN << n >> ELSE toDigits(n \div 10) \o << n % 10 >>

RECURSIVE parseInt(_)
\* parseInt of a string of decimal digits.
parseInt(s) ==
    IF Len(s) = 1 THEN s[1]
    ELSE 10 * parseInt(SubSeq(s, 1, Len(s) - 1)) + s[Len(s)]

RECURSIVE JSONstringify(_)
\* JSON.stringify of a map: the sequence of its <<key, value>> members.
JSONstringify(obj) ==
    IF DOMAIN obj = {} THEN << >>
    ELSE LET k == CHOOSE x \in DOMAIN obj : TRUE
         IN  << <<k, obj[k]>> >>
             \o JSONstringify([x \in (DOMAIN obj) \ {k} |-> obj[x]])

\* JSON.parse of such a text.
JSONparse(text) ==
    LET keys == {text[i][1] : i \in 1..Len(text)}
    IN  [k \in keys |-> LET i == CHOOSE j \in 1..Len(text) : text[j][1] = k
                        IN  text[i][2]]

VARIABLES
    localStorage,   \* the four persisted items
    DataLoader,     \* [packs, events, cache, error]
    State,          \* [coins, stars, unlocked, completed]
    Game,           \* [currentPackId, currentLevelIndex, targetWord,
                    \*  scrambledLetters, selectedIndices]
    href,           \* window.location: [page, id, level]
    phase,          \* position of the page's script
    winTimers,      \* pending setTimeout(handleWin, 300) callbacks
    modal,          \* completion modal open (style.opacity = '1')
    alertMsg,       \* alert raised by the last handler, or "none"
    Album,          \* [packId, pending, dialog]: the levels page
    fetchCount      \* units.json fetches issued by this page, per packId

vars == << localStorage, DataLoader, State, Game, href, phase, winTimers,
           modal, alertMsg, Album, fetchCount >>

\* ------------------------------------------------------------ DataLoader
\* The DataLoader object literal before init.
DataLoaderObject ==
    [packs |-> << >>, events |-> << >>, cache |-> EmptyObj, error |-> Null]

\* The forEach bodies of DataLoader.init: id falls back to name, type is set.
NormalizeIds(items, type) ==
    [i \in 1..Len(items) |->
        [items[i] EXCEPT !.id = IF items[i].id = Undefined
                                THEN items[i].name ELSE items[i].id,
                         !.type = type]]

\* What the two fetches of DataLoader.init can do.
LoadOutcomes == {"ok", "unreachable", "packsMalformed", "eventsMalformed"}

\* DataLoader.init.  A rejected fetch, a non-ok status or a malformed packs
\* document throws before anything is assigned; a malformed events document
\* throws after this.packs was assigned and before the ids are normalized.
DataLoaderInit(dl, outcome) ==
    CASE outcome = "ok" ->
             [dl EXCEPT !.packs = NormalizeIds(PacksJson, "pack"),
                        !.events = NormalizeIds(EventsJson, "event")]
      [] outcome = "eventsMalformed" ->
             [dl EXCEPT !.packs = PacksJson, !.error = "Failed"]
      [] OTHER -> [dl EXCEPT !.error = "Failed"]

\* The undefined that Array.prototype.find returns.
NoPack ==
    [name |-> Undefined, id |-> Undefined, lvls |-> 0, star |-> 0,
     is_star |-> FALSE, type |-> Undefined]

\* arr.find(p => p.name === id)
FindByName(arr, id) ==
    LET hits == {i \in 1..Len(arr) : arr[i].name = id}
    IN  IF hits = {} THEN NoPack
        ELSE arr[CHOOSE i \in hits : \A j \in hits : i <= j]

\* DataLoader.getPack
getPack(dl, id) ==
    IF FindByName(dl.packs, id) # NoPack THEN FindByName(dl.packs, id)
    ELSE FindByName(dl.events, id)

\* The url of DataLoader.getLevelWords.
UnitsUrl(pack) ==
    IF pack.type = "event" THEN <<"data/Events", pack.name>>
    ELSE <<"data", pack.name>>

\* DataLoader.getLevelWords once its fetch has settled: the words returned
\* and the DataLoader afterwards.  fetchOk = FALSE is a rejected fetch or an
\* unparsable body.
getLevelWords(dl, packId, fetchOk) ==
    IF packId \in DOMAIN dl.cache
    THEN [words |-> dl.cache[packId], dl |-> dl]
    ELSE IF getPack(dl, packId) = NoPack
    THEN [words |-> << >>, dl |-> dl]
    ELSE IF fetchOk
    THEN LET words == UnitsJson(UnitsUrl(getPack(dl, packId)))
         IN  [words |-> words,
              dl |-> [dl EXCEPT !.cache = Put(@, packId, words)]]
    ELSE [words |-> << >>, dl |-> dl]

\* ----------------------------------------------------------------- State
\* The State object literal before init.
StateObject ==
    [coins |-> StartCoins, stars |-> 0, unlocked |-> EmptyObj,
     completed |-> EmptyObj]

\* State.save: the four setItem calls.  st is State, ls is localStorage.
save(st, ls) ==
    Put(Put(Put(Put(ls,
        "bollywood_coins", toDigits(st.coins)),
        "bollywood_stars", toDigits(st.stars)),
        "bollywood_unlocked", JSONstringify(st.unlocked)),
        "bollywood_completed", JSONstringify(st.completed))

\* State.init up to the await: the four getItem reads.
StateLoad(st, ls) ==
    [coins |-> IF "bollywood_coins" \in DOMAIN ls
               THEN parseInt(ls["bollywood_coins"]) ELSE st.coins,
     stars |-> IF "bollywood_stars" \in DOMAIN ls
               THEN parseInt(ls["bollywood_stars"]) ELSE st.stars,
     unlocked |-> IF "bollywood_unlocked" \in DOMAIN ls
                  THEN JSONparse(ls["bollywood_unlocked"]) ELSE st.unlocked,
     completed |-> IF "bollywood_completed" \in DOMAIN ls
                   THEN JSONparse(ls["bollywood_completed"])
                   ELSE st.completed]

StateDefaults_ResetFrontier(st, dl) ==
    LET ids == {dl.packs[i].id : i \in 1..Len(dl.packs)}
               \cup {dl.events[i].id : i \in 1..Len(dl.events)}
    IN  [st EXCEPT
           !.unlocked = [k \in (DOMAIN st.unlocked) \cup ids |->
                           IF k \in ids THEN 0 ELSE st.unlocked[k]],
           !.completed = [k \in (DOMAIN st.completed) \cup ids |->
                            IF k \in DOMAIN st.completed
                            THEN st.completed[k] ELSE {}]]

\* State.init after the await: defaults for every catalog item, keyed by
\* pack.id (falsy unlocked[id], i.e. undefined or 0, becomes 0).
StateDefaults(st, dl) ==
    LET ids == {dl.packs[i].id : i \in 1..Len(dl.packs)}
               \cup {dl.events[i].id : i \in 1..Len(dl.events)}
    IN  [st EXCEPT
           !.unlocked = [k \in (DOMAIN st.unlocked) \cup ids |->
                           IF k \in DOMAIN st.unlocked
                           THEN st.unlocked[k] ELSE 0],
           !.completed = [k \in (DOMAIN st.completed) \cup ids |->
                            IF k \in DOMAIN st.completed
                            THEN st.completed[k] ELSE {}]]

isLevelUnlocked_Open(st, packId, levelIndex) ==
    TRUE

\* State.isLevelUnlocked (undefined >= n is false)
isLevelUnlocked(st, packId, levelIndex) ==
    /\ packId \in DOMAIN st.unlocked
    /\ st.unlocked[packId] >= levelIndex

\* State.isPackUnlocked
isPackUnlocked(st, dl, packId) ==
    LET pack == getPack(dl, packId)
    IN  IF pack = NoPack THEN FALSE
        ELSE IF pack.star > 0 THEN st.stars >= pack.star
        ELSE TRUE

\* State.completed[packId] && State.completed[packId][levelIndex]
isCompleted(st, packId, levelIndex) ==
    /\ packId \in DOMAIN st.completed
    /\ levelIndex \in st.completed[packId]

completeLevel_StarEveryTime(st, dl, packId, levelIndex) ==
    LET done == IF packId \in DOMAIN st.completed
                THEN st.completed[packId] ELSE {}
        pack == getPack(dl, packId)
    IN  [st EXCEPT
           !.completed = Put(@, packId, done \cup {levelIndex}),
           !.unlocked = IF packId \in DOMAIN @ /\ @[packId] = levelIndex
                        THEN Put(@, packId, levelIndex + 1) ELSE @,
           !.stars = IF pack # NoPack /\ pack.is_star THEN @ + 1 ELSE @]

completeLevel_NoUnlock(st, dl, packId, levelIndex) ==
    LET done == IF packId \in DOMAIN st.completed
                THEN st.completed[packId] ELSE {}
        isFirstCompletion == levelIndex \notin done
        pack == getPack(dl, packId)
    IN  [st EXCEPT
           !.completed = Put(@, packId, done \cup {levelIndex}),
           !.stars = IF isFirstCompletion /\ pack # NoPack /\ pack.is_star
                     THEN @ + 1 ELSE @]

completeLevel_ForgetOthers(st, dl, packId, levelIndex) ==
    LET done == IF packId \in DOMAIN st.completed
                THEN st.completed[packId] ELSE {}
        isFirstCompletion == levelIndex \notin done
        pack == getPack(dl, packId)
    IN  [st EXCEPT
           !.completed = Put(@, packId, {levelIndex}),
           !.unlocked = IF packId \in DOMAIN @ /\ @[packId] = levelIndex
                        THEN Put(@, packId, levelIndex + 1) ELSE @,
           !.stars = IF isFirstCompletion /\ pack # NoPack /\ pack.is_star
                     THEN @ + 1 ELSE @]

completeLevel_AdvanceEveryPack(st, dl, packId, levelIndex) ==
    LET done == IF packId \in DOMAIN st.completed
                THEN st.completed[packId] ELSE {}
        isFirstCompletion == levelIndex \notin done
        pack == getPack(dl, packId)
    IN  [st EXCEPT
           !.completed = Put(@, packId, done \cup {levelIndex}),
           !.unlocked = IF packId \in DOMAIN @ /\ @[packId] = levelIndex
                        THEN [q \in DOMAIN @ |->
                                 IF @[q] = levelIndex THEN levelIndex + 1
                                 ELSE @[q]]
                        ELSE @,
           !.stars = IF isFirstCompletion /\ pack # NoPack /\ pack.is_star
                     THEN @ + 1 ELSE @]

\* State.completeLevel, the State it leaves (every path ends in save()).
completeLevel(st, dl, packId, levelIndex) ==
    LET done == IF packId \in DOMAIN st.completed
                THEN st.completed[packId] ELSE {}
        isFirstCompletion == levelIndex \notin done
        pack == getPack(dl, packId)
    IN  [st EXCEPT
           !.completed = Put(@, packId, done \cup {levelIndex}),
           !.unlocked = IF packId \in DOMAIN @ /\ @[packId] = levelIndex
                        THEN Put(@, packId, levelIndex + 1) ELSE @,
           !.stars = IF isFirstCompletion /\ pack # NoPack /\ pack.is_star
                     THEN @ + 1 ELSE @]

deductCoins_NoCheck(st, amount) ==
    [ok |-> TRUE, st |-> [st EXCEPT !.coins = @ - amount]]

deductCoins_Positive(st, amount) ==
    IF st.coins > 0
    THEN [ok |-> TRUE, st |-> [st EXCEPT !.coins = @ - amount]]
    ELSE [ok |-> FALSE, st |-> st]

\* State.deductCoins: the result and the State it leaves.
deductCoins(st, amount) ==
    IF st.coins >= amount
    THEN [ok |-> TRUE, st |-> [st EXCEPT !.coins = @ - amount]]
    ELSE [ok |-> FALSE, st |-> st]

\* State.addCoins
addCoins(st, amount) ==
    [st EXCEPT !.coins = @ + amount]

\* ------------------------------------------------------------------ Game
\* The Game object literal before init.
GameObject ==
    [currentPackId |-> Null, currentLevelIndex |-> NaN, targetWord |-> << >>,
     scrambledLetters |-> << >>, selectedIndices |-> << >>]

\* Array.prototype.indexOf, 1-based; 0 where the code gets -1.
IndexOf(arr, v) ==
    LET hits == {i \in 1..Len(arr) : arr[i] = v}
    IN  IF hits = {} THEN 0 ELSE CHOOSE i \in hits : \A j \in hits : i <= j

Swap_Overwrite(a, i, j) ==
    [a EXCEPT ![i] = a[j]]

\* [a[i], a[j]] = [a[j], a[i]]
Swap(a, i, j) ==
    [a EXCEPT ![i] = a[j], ![j] = a[i]]

RECURSIVE Shuffles(_, _)
\* The Fisher-Yates loop of Game.reset from index i downwards, over every
\* value Math.random can give: the set of arrays it can leave.
Shuffles(letters, i) ==
    IF i <= 1 THEN {letters}
    ELSE UNION {Shuffles(Swap(letters, i, j), i - 1) : j \in 1..i}

\* Game.reset with the shuffled letters it drew.
reset(g, letters) ==
    [g EXCEPT
       !.selectedIndices = [i \in 1..Len(g.targetWord) |-> NoIdx],
       !.scrambledLetters = [i \in 1..Len(letters) |->
                                [char |-> letters[i], id |-> i - 1]]]

\* Game.isScrambledIndexSelected
isScrambledIndexSelected(g, scrambledIdx) ==
    \E i \in 1..Len(g.selectedIndices) : g.selectedIndices[i] = scrambledIdx

checkWin_FullIsWin(g) ==
    IF \E i \in 1..Len(g.selectedIndices) : g.selectedIndices[i] = NoIdx
    THEN "Incomplete"
    ELSE "Win"

\* Game.checkWin: "Win" schedules handleWin, "Mismatch" shakes, "Incomplete"
\* is the early return.
checkWin(g) ==
    IF \E i \in 1..Len(g.selectedIndices) : g.selectedIndices[i] = NoIdx
    THEN "Incomplete"
    ELSE LET currentWord ==
                 [i \in 1..Len(g.selectedIndices) |->
                     g.scrambledLetters[g.selectedIndices[i]].char]
         IN  IF currentWord = g.targetWord THEN "Win" ELSE "Mismatch"

selectLetter_LastEmpty(g, scrambledIndex) ==
    LET empty == {i \in 1..Len(g.selectedIndices) :
                     g.selectedIndices[i] = NoIdx}
        emptySlotIndex == IF empty = {} THEN 0
                          ELSE CHOOSE i \in empty : \A j \in empty : i >= j
        g2 == [g EXCEPT !.selectedIndices[emptySlotIndex] = scrambledIndex]
    IN  IF emptySlotIndex # 0
        THEN [Game |-> g2, check |-> checkWin(g2)]
        ELSE [Game |-> g, check |-> "none"]

\* Game.selectLetter: the Game it leaves and what its checkWin call did
\* ("none" when checkWin is not called).
selectLetter(g, scrambledIndex) ==
    LET emptySlotIndex == IndexOf(g.selectedIndices, NoIdx)
        g2 == [g EXCEPT !.selectedIndices[emptySlotIndex] = scrambledIndex]
    IN  IF emptySlotIndex # 0
        THEN [Game |-> g2, check |-> checkWin(g2)]
        ELSE [Game |-> g, check |-> "none"]

deselectLetter_ClearAll(g, slotIndex) ==
    [g EXCEPT !.selectedIndices = [i \in 1..Len(@) |-> NoIdx]]

\* Game.deselectLetter
deselectLetter(g, slotIndex) ==
    [g EXCEPT !.selectedIndices[slotIndex] = NoIdx]

\* The first loop of Game.useHint: the first slot that is empty or wrong,
\* 0 where the code has -1.
SlotToFix(g) ==
    LET bad == {i \in 1..Len(g.targetWord) :
                   \/ g.selectedIndices[i] = NoIdx
                   \/ g.scrambledLetters[g.selectedIndices[i]].char
                          # g.targetWord[i]}
    IN  IF bad = {} THEN 0 ELSE CHOOSE i \in bad : \A j \in bad : i <= j

FinalScrambledIdx_LastMatch(g, correctChar) ==
    LET match == {i \in 1..Len(g.scrambledLetters) :
                      g.scrambledLetters[i].char = correctChar}
    IN  IF match # {} THEN CHOOSE i \in match : \A j \in match : i >= j
        ELSE 0

\* The second loop of Game.useHint: finalScrambledIdx for correctChar, the
\* first unselected entry carrying it, else the last selected one, else 0.
FinalScrambledIdx(g, correctChar) ==
    LET match == {i \in 1..Len(g.scrambledLetters) :
                      g.scrambledLetters[i].char = correctChar}
        free == {i \in match : ~isScrambledIndexSelected(g, i)}
    IN  IF free # {} THEN CHOOSE i \in free : \A j \in free : i <= j
        ELSE IF match # {} THEN CHOOSE i \in match : \A j \in match : i >= j
        ELSE 0

applyHint_KeepOldSlot(g) ==
    LET slotToFix == SlotToFix(g)
        finalScrambledIdx ==
            IF slotToFix = 0 THEN 0
            ELSE FinalScrambledIdx(g, g.targetWord[slotToFix])
        g2 == [g EXCEPT !.selectedIndices[slotToFix] = finalScrambledIdx]
    IN  IF slotToFix # 0 /\ finalScrambledIdx # 0
        THEN [Game |-> g2, check |-> checkWin(g2)]
        ELSE [Game |-> g, check |-> "none"]

applyHint_NextChar(g) ==
    LET slotToFix == SlotToFix(g)
        finalScrambledIdx ==
            IF slotToFix = 0 \/ slotToFix = Len(g.targetWord) THEN 0
            ELSE FinalScrambledIdx(g, g.targetWord[slotToFix + 1])
        oldSlotIdx == IndexOf(g.selectedIndices, finalScrambledIdx)
        cleared == IF oldSlotIdx # 0
                   THEN [g.selectedIndices EXCEPT ![oldSlotIdx] = NoIdx]
                   ELSE g.selectedIndices
        g2 == [g EXCEPT !.selectedIndices =
                            [cleared EXCEPT ![slotToFix] = finalScrambledIdx]]
    IN  IF slotToFix # 0 /\ finalScrambledIdx # 0
        THEN [Game |-> g2, check |-> checkWin(g2)]
        ELSE [Game |-> g, check |-> "none"]

\* Game.useHint after the coins were deducted: the Game it leaves and what
\* its checkWin call did ("none" when nothing is changed).
applyHint(g) ==
    LET slotToFix == SlotToFix(g)
        finalScrambledIdx ==
            IF slotToFix = 0 THEN 0
            ELSE FinalScrambledIdx(g, g.targetWord[slotToFix])
        oldSlotIdx == IndexOf(g.selectedIndices, finalScrambledIdx)
        cleared == IF oldSlotIdx # 0
                   THEN [g.selectedIndices EXCEPT ![oldSlotIdx] = NoIdx]
                   ELSE g.selectedIndices
        g2 == [g EXCEPT !.selectedIndices =
                            [cleared EXCEPT ![slotToFix] = finalScrambledIdx]]
    IN  IF slotToFix # 0 /\ finalScrambledIdx # 0
        THEN [Game |-> g2, check |-> checkWin(g2)]
        ELSE [Game |-> g, check |-> "none"]

\* Game.handleWin on State: completeLevel, then the reward.
handleWin(st, dl, g) ==
    addCoins(completeLevel(st, dl, g.currentPackId, g.currentLevelIndex),
             WinReward)

skipLevel_WithReward(st, dl, g) ==
    LET paid == deductCoins(st, SkipCost)
    IN  IF paid.ok
        THEN [ok |-> TRUE, st |-> handleWin(paid.st, dl, g)]
        ELSE [ok |-> FALSE, st |-> st]

\* Game.skipLevel on State: whether it went through, and the State it leaves.
skipLevel(st, dl, g) ==
    LET paid == deductCoins(st, SkipCost)
    IN  IF paid.ok
        THEN [ok |-> TRUE,
              st |-> completeLevel(paid.st, dl, g.currentPackId,
                                   g.currentLevelIndex)]
        ELSE [ok |-> FALSE, st |-> st]

nextLevel_AlwaysNext(dl, g) ==
    [page |-> "game", id |-> g.currentPackId,
     level |-> g.currentLevelIndex + 1]

\* The location Game.nextLevel navigates to.
nextLevel(dl, g) ==
    LET pack == getPack(dl, g.currentPackId)
    IN  IF g.currentLevelIndex + 1 < pack.lvls
        THEN [page |-> "game", id |-> g.currentPackId,
              level |-> g.currentLevelIndex + 1]
        ELSE [page |-> "levels", id |-> g.currentPackId, level |-> NaN]

\* ------------------------------------------------------------------ Album
\* The Album object literal (dialog: the level the answer dialog shows, NaN
\* while it is closed; pending: the showAnswerDialog calls awaiting words).
AlbumObject ==
    [packId |-> Null, pending |-> << >>, dialog |-> NaN]

\* DataLoader.getLevelWords up to its await: whether the call reaches
\* fetch(url), i.e. nothing is cached for packId and the pack resolves.
IssuesFetch(dl, packId) ==
    /\ packId \notin DOMAIN dl.cache
    /\ getPack(dl, packId) # NoPack

\* DataLoader.getLevelWords after its await, for a call that fetched: the
\* try/catch around res.json() and the cache assignment.
settleFetch(dl, packId, fetchOk) ==
    IF fetchOk
    THEN LET words == UnitsJson(UnitsUrl(getPack(dl, packId)))
         IN  [words |-> words,
              dl |-> [dl EXCEPT !.cache = Put(@, packId, words)]]
    ELSE [words |-> << >>, dl |-> dl]

\* One more fetch(url) of the units of packId.
CountFetch(fc, packId) ==
    Put(fc, packId, (IF packId \in DOMAIN fc THEN fc[packId] ELSE 0) + 1)

\* ------------------------------------------------------------ the pages
IndexUrl == [page |-> "index", id |-> Null, level |-> NaN]

LevelsUrl(packId) == [page |-> "levels", id |-> packId, level |-> NaN]

\* The id and level parameters a game.html or levels.html URL is opened with.
UrlIds == {"Classic", "Gold", "g1", "Fest", Null}

UrlLevels == (0..MaxLevel) \cup {NaN}

Urls ==
    {IndexUrl} \cup {LevelsUrl(id) : id \in UrlIds}
    \cup {[page |-> "game", id |-> id, level |-> l] :
             id \in UrlIds, l \in UrlLevels}

GameInitStart_NoReplayCheck(st, dl, url) ==
    IF url.id = Null \/ url.level = NaN
    THEN [phase |-> "redirect", href |-> IndexUrl, Game |-> GameObject]
    ELSE IF ~isLevelUnlocked(st, url.id, url.level)
    THEN [phase |-> "redirect", href |-> LevelsUrl(url.id),
          Game |-> GameObject]
    ELSE IF ~isPackUnlocked(st, dl, url.id)
    THEN [phase |-> "redirect", href |-> IndexUrl, Game |-> GameObject]
    ELSE [phase |-> "loading", href |-> url,
          Game |-> [GameObject EXCEPT !.currentPackId = url.id,
                                      !.currentLevelIndex = url.level]]

\* Game.init up to its await: the four redirects, or the level is entered.
GameInitStart(st, dl, url) ==
    IF url.id = Null \/ url.level = NaN
    THEN [phase |-> "redirect", href |-> IndexUrl, Game |-> GameObject]
    ELSE IF ~isLevelUnlocked(st, url.id, url.level)
    THEN [phase |-> "redirect", href |-> LevelsUrl(url.id),
          Game |-> GameObject]
    ELSE IF ~isPackUnlocked(st, dl, url.id)
    THEN [phase |-> "redirect", href |-> IndexUrl, Game |-> GameObject]
    ELSE IF isCompleted(st, url.id, url.level)
    THEN [phase |-> "redirect", href |-> LevelsUrl(url.id),
          Game |-> GameObject]
    ELSE [phase |-> "loading", href |-> url,
          Game |-> [GameObject EXCEPT !.currentPackId = url.id,
                                      !.currentLevelIndex = url.level]]

\* Album.init up to the rendering of the grid: its three redirects.
AlbumInitStart(st, dl, url) ==
    IF url.id = Null THEN [phase |-> "redirect", href |-> IndexUrl]
    ELSE IF getPack(dl, url.id) = NoPack
    THEN [phase |-> "redirect", href |-> IndexUrl]
    ELSE IF ~isPackUnlocked(st, dl, url.id)
    THEN [phase |-> "redirect", href |-> IndexUrl]
    ELSE [phase |-> "album", href |-> url]

\* A page's script and its objects start afresh on every document.
FreshPage ==
    /\ DataLoader' = DataLoaderObject
    /\ State' = StateObject
    /\ Game' = GameObject
    /\ winTimers' = 0
    /\ modal' = FALSE
    /\ alertMsg' = "none"
    /\ Album' = AlbumObject
    /\ fetchCount' = EmptyObj

Init ==
    /\ localStorage = EmptyObj
    /\ DataLoader = DataLoaderObject
    /\ State = StateObject
    /\ Game = GameObject
    /\ href = IndexUrl
    /\ phase = "boot"
    /\ winTimers = 0
    /\ modal = FALSE
    /\ alertMsg = "none"
    /\ Album = AlbumObject
    /\ fetchCount = EmptyObj

\* The player opens a URL (a link of another page, or the address bar).
Navigate(url) ==
    /\ href' = url
    /\ phase' = "boot"
    /\ FreshPage
    /\ UNCHANGED localStorage

\* The document a script navigated to replaces the page.
Unload ==
    /\ phase = "redirect"
    /\ phase' = "boot"
    /\ FreshPage
    /\ UNCHANGED << localStorage, href >>

\* The DOMContentLoaded handler: State.init (with DataLoader.init), then the
\* init of the page up to its first await.  No handler is registered before
\* Input.init, so nothing interleaves.
DOMContentLoaded(outcome) ==
    /\ phase = "boot"
    /\ LET dl == DataLoaderInit(DataLoader, outcome)
           st == StateDefaults(StateLoad(State, localStorage), dl)
       IN  /\ DataLoader' = dl
           /\ State' = st
           /\ CASE href.page = "game" ->
                      LET r == GameInitStart(st, dl, href)
                      IN  /\ phase' = r.phase
                          /\ href' = r.href
                          /\ Game' = r.Game
                          /\ Album' = Album
                          /\ fetchCount' =
                                 IF r.phase = "loading"
                                    /\ IssuesFetch(dl, r.Game.currentPackId)
                                 THEN CountFetch(fetchCount,
                                                 r.Game.currentPackId)
                                 ELSE fetchCount
                [] href.page = "levels" ->
                      LET r == AlbumInitStart(st, dl, href)
                      IN  /\ phase' = r.phase
                          /\ href' = r.href
                          /\ Game' = Game
                          /\ Album' = IF href.id = Null THEN Album
                                       ELSE [Album EXCEPT !.packId = href.id]
                          /\ fetchCount' = fetchCount
                [] OTHER ->
                      /\ phase' = "home"
                      /\ UNCHANGED << href, Game, Album, fetchCount >>
    /\ alertMsg' = "none"
    /\ UNCHANGED << localStorage, winTimers, modal >>

\* Game.init after its await, the word missing: alert and redirect.
WordsMissing(fetchOk) ==
    /\ phase = "loading"
    /\ LET r == getLevelWords(DataLoader, Game.currentPackId, fetchOk)
       IN  /\ IF Game.currentLevelIndex + 1 > Len(r.words) THEN TRUE
              ELSE r.words[Game.currentLevelIndex + 1] = << >>
           /\ DataLoader' = r.dl
    /\ alertMsg' = "Error loading level data!"
    /\ href' = LevelsUrl(Game.currentPackId)
    /\ phase' = "redirect"
    /\ UNCHANGED << localStorage, State, Game, winTimers, modal >>
    /\ UNCHANGED << Album, fetchCount >>

\* Game.init after its await, the word there: targetWord, then reset().
WordsLoaded ==
    /\ phase = "loading"
    /\ LET r == getLevelWords(DataLoader, Game.currentPackId, TRUE)
       IN  /\ Game.currentLevelIndex + 1 <= Len(r.words)
           /\ r.words[Game.currentLevelIndex + 1] # << >>
           /\ DataLoader' = r.dl
           /\ LET g == [Game EXCEPT !.targetWord = NormalizeWord(
                                        r.words[Game.currentLevelIndex + 1])]
              IN  \E letters \in Shuffles(g.targetWord, Len(g.targetWord)) :
                      Game' = reset(g, letters)
    /\ phase' = "play"
    /\ alertMsg' = "none"
    /\ UNCHANGED << localStorage, State, href, winTimers, modal >>
    /\ UNCHANGED << Album, fetchCount >>

\* The keydown listener reaches Game.handleInput: the page is game.html, its
\* script is past Input.init, and the completion modal is closed.
KeyboardOpen == phase \in {"loading", "play"} /\ ~modal

\* The onclick handlers of Game.init and Game.render exist, and the modal
\* (pointerEvents 'auto' while open) is not in front of them.
PointerOpen == phase = "play" /\ ~modal

\* A checkWin that found the word schedules one more handleWin.
Schedule(check) ==
    /\ check = "Win" => winTimers < MaxTimers
    /\ winTimers' = IF check = "Win" THEN winTimers + 1 ELSE winTimers

\* e.key.toUpperCase() of the letter keys pressed.
LetterKeys == {"A", "B"}

\* tile.onclick of an unselected tile
TileClick(index) ==
    /\ PointerOpen
    /\ index \in 1..Len(Game.scrambledLetters)
    /\ ~isScrambledIndexSelected(Game, index)
    /\ LET r == selectLetter(Game, index)
       IN  Game' = r.Game /\ Schedule(r.check)
    /\ alertMsg' = "none"
    /\ UNCHANGED << localStorage, DataLoader, State, href, phase, modal >>
    /\ UNCHANGED << Album, fetchCount >>

\* Game.handleInput, a letter key: the first unselected entry carrying it.
LetterKey(key) ==
    /\ KeyboardOpen
    /\ LET found == {i \in 1..Len(Game.scrambledLetters) :
                        /\ Game.scrambledLetters[i].char = key
                        /\ ~isScrambledIndexSelected(Game, i)}
           foundIdx == IF found = {} THEN 0
                       ELSE CHOOSE i \in found : \A j \in found : i <= j
           r == IF foundIdx # 0 THEN selectLetter(Game, foundIdx)
                ELSE [Game |-> Game, check |-> "none"]
       IN  Game' = r.Game /\ Schedule(r.check)
    /\ alertMsg' = "none"
    /\ UNCHANGED << localStorage, DataLoader, State, href, phase, modal >>
    /\ UNCHANGED << Album, fetchCount >>

\* slot.onclick of a filled slot
SlotClick(slotIndex) ==
    /\ PointerOpen
    /\ slotIndex \in 1..Len(Game.selectedIndices)
    /\ Game.selectedIndices[slotIndex] # NoIdx
    /\ Game' = deselectLetter(Game, slotIndex)
    /\ alertMsg' = "none"
    /\ UNCHANGED << localStorage, DataLoader, State, href, phase, winTimers,
                    modal >>
    /\ UNCHANGED << Album, fetchCount >>

\* Game.handleInput, Backspace: the last filled slot is cleared.
BackspaceKey ==
    /\ KeyboardOpen
    /\ LET filled == {i \in 1..Len(Game.selectedIndices) :
                         Game.selectedIndices[i] # NoIdx}
           lastFilled == IF filled = {} THEN 0
                         ELSE CHOOSE i \in filled : \A j \in filled : i >= j
       IN  Game' = IF lastFilled # 0 THEN deselectLetter(Game, lastFilled)
                   ELSE Game
    /\ alertMsg' = "none"
    /\ UNCHANGED << localStorage, DataLoader, State, href, phase, winTimers,
                    modal >>
    /\ UNCHANGED << Album, fetchCount >>

\* Game.reset from ArrowDown or the delete button.
ResetCommand ==
    /\ KeyboardOpen
    /\ \E letters \in Shuffles(Game.targetWord, Len(Game.targetWord)) :
           Game' = reset(Game, letters)
    /\ alertMsg' = "none"
    /\ UNCHANGED << localStorage, DataLoader, State, href, phase, winTimers,
                    modal >>
    /\ UNCHANGED << Album, fetchCount >>

\* Game.useHint from ArrowUp or the hint button.
HintCommand ==
    /\ KeyboardOpen
    /\ LET paid == deductCoins(State, HintCost)
           r == applyHint(Game)
       IN  IF paid.ok
           THEN /\ State' = paid.st
                /\ localStorage' = save(paid.st, localStorage)
                /\ Game' = r.Game
                /\ Schedule(r.check)
                /\ alertMsg' = "none"
           ELSE /\ alertMsg' = "Not enough coins!"
                /\ UNCHANGED << State, localStorage, Game, winTimers >>
    /\ UNCHANGED << DataLoader, href, phase, modal >>
    /\ UNCHANGED << Album, fetchCount >>

\* Game.skipLevel from ArrowRight or the skip button.
SkipCommand ==
    /\ KeyboardOpen
    /\ LET r == skipLevel(State, DataLoader, Game)
       IN  IF r.ok
           THEN /\ State' = r.st
                /\ localStorage' = save(r.st, localStorage)
                /\ modal' = TRUE
                /\ alertMsg' = "none"
           ELSE /\ alertMsg' = "Not enough coins!"
                /\ UNCHANGED << State, localStorage, modal >>
    /\ UNCHANGED << DataLoader, Game, href, phase, winTimers >>
    /\ UNCHANGED << Album, fetchCount >>

\* Game.handleInput, Escape (the back-to-album button does the same).
EscapeKey ==
    /\ KeyboardOpen
    /\ href' = LevelsUrl(Game.currentPackId)
    /\ phase' = "redirect"
    /\ alertMsg' = "none"
    /\ UNCHANGED << localStorage, DataLoader, State, Game, winTimers, modal >>
    /\ UNCHANGED << Album, fetchCount >>

\* The callback of checkWin's setTimeout: Game.handleWin.
WinTimeout ==
    /\ phase \in {"loading", "play"}
    /\ winTimers > 0
    /\ winTimers' = winTimers - 1
    /\ State' = handleWin(State, DataLoader, Game)
    /\ localStorage' = save(State', localStorage)
    /\ modal' = TRUE
    /\ alertMsg' = "none"
    /\ UNCHANGED << DataLoader, Game, href, phase >>
    /\ UNCHANGED << Album, fetchCount >>

\* modal-continue: its click, or Enter/Escape while the modal is open.
ModalContinue ==
    /\ phase \in {"loading", "play"}
    /\ modal
    /\ modal' = FALSE
    /\ href' = nextLevel(DataLoader, Game)
    /\ phase' = "redirect"
    /\ alertMsg' = "none"
    /\ UNCHANGED << localStorage, DataLoader, State, Game, winTimers >>
    /\ UNCHANGED << Album, fetchCount >>

\* el.onclick of a level tile of the grid (bound for unlocked levels only):
\* a completed level opens the answer dialog, any other one is played.
\* showAnswerDialog awaits getLevelWords: a cached list comes back before
\* any other event, an uncached one issues a fetch.
LevelClick(i) ==
    /\ phase = "album"
    /\ Album.dialog = NaN
    /\ i \in 0..(getPack(DataLoader, Album.packId).lvls - 1)
    /\ isLevelUnlocked(State, Album.packId, i)
    /\ IF isCompleted(State, Album.packId, i)
       THEN /\ IF IssuesFetch(DataLoader, Album.packId)
               THEN /\ ~(Album.packId \in DOMAIN fetchCount
                         /\ fetchCount[Album.packId] >= MaxFetches)
                    /\ fetchCount' = CountFetch(fetchCount, Album.packId)
                    /\ Album' = [Album EXCEPT !.pending = Append(@, i)]
               ELSE /\ fetchCount' = fetchCount
                    /\ Album' = [Album EXCEPT !.dialog = i]
            /\ UNCHANGED << href, phase >>
       ELSE /\ href' = [page |-> "game", id |-> Album.packId, level |-> i]
            /\ phase' = "redirect"
            /\ UNCHANGED << Album, fetchCount >>
    /\ alertMsg' = "none"
    /\ UNCHANGED << localStorage, DataLoader, State, Game, winTimers, modal >>

\* Album.showAnswerDialog after its await: the k-th pending call gets its
\* words and opens the dialog.
RevealSettle(k, fetchOk) ==
    /\ phase = "album"
    /\ k \in 1..Len(Album.pending)
    /\ DataLoader' = settleFetch(DataLoader, Album.packId, fetchOk).dl
    /\ Album' = [Album EXCEPT
                    !.dialog = Album.pending[k],
                    !.pending = SubSeq(@, 1, k - 1)
                                \o SubSeq(@, k + 1, Len(@))]
    /\ alertMsg' = "none"
    /\ UNCHANGED << localStorage, State, Game, href, phase, winTimers, modal,
                    fetchCount >>

Next ==
    \/ \E url \in Urls : Navigate(url)
    \/ Unload
    \/ \E outcome \in LoadOutcomes : DOMContentLoaded(outcome)
    \/ \E fetchOk \in BOOLEAN : WordsMissing(fetchOk)
    \/ WordsLoaded
    \/ \E index \in 1..Len(Game.scrambledLetters) : TileClick(index)
    \/ \E key \in LetterKeys : LetterKey(key)
    \/ \E slotIndex \in 1..Len(Game.selectedIndices) : SlotClick(slotIndex)
    \/ BackspaceKey
    \/ ResetCommand
    \/ HintCommand
    \/ SkipCommand
    \/ EscapeKey
    \/ WinTimeout
    \/ ModalContinue
    \/ \E i \in 0..MaxLevel : LevelClick(i)
    \/ \E k \in 1..MaxFetches, fetchOk \in BOOLEAN : RevealSettle(k, fetchOk)

Spec == Init /\ [][Next]_vars

\* ------------------------------------------------------------ properties
\* A step of the page's own handlers: the document is not replaced.
SamePage == phase \in {"loading", "play"} /\ phase' = phase

\* The character a slot shows, "" for an empty slot.
SlotChar(g, i) ==
    IF g.selectedIndices[i] = NoIdx THEN ""
    ELSE g.scrambledLetters[g.selectedIndices[i]].char

\* Number of slots holding the character the target has at their position.
CorrectSlots(g) ==
    Cardinality({i \in 1..Len(g.selectedIndices) :
                    SlotChar(g, i) = g.targetWord[i]})

\* All slots filled and spelling the target of a level with letters.
FullMatch(g) ==
    /\ Len(g.targetWord) > 0
    /\ \A i \in 1..Len(g.selectedIndices) : SlotChar(g, i) = g.targetWord[i]

\* A step in which Game.useHint paid and ran.
HintStep == SamePage /\ State'.coins = State.coins - HintCost

\* A step in which Game.skipLevel paid and ran: the modal opens and no
\* timeout was consumed.
SkipStep == SamePage /\ ~modal /\ modal' /\ winTimers' = winTimers

\* A step in which the handleWin timeout ran.
WinStep == SamePage /\ winTimers' = winTimers - 1

\* The catalog item of an identifier (explicit id, else the name).
CatalogItems ==
    {PacksJson[i] : i \in 1..Len(PacksJson)}
    \cup {EventsJson[i] : i \in 1..Len(EventsJson)}

StarEligible(packId) ==
    \E p \in CatalogItems :
        /\ (IF p.id = Undefined THEN p.name ELSE p.id) = packId
        /\ p.is_star

\* C1: in every reachable state every pool position occupies at most one
\* slot of selectedIndices, and every filled slot holds the position of an
\* existing pool entry.
C1_SlotsInjective ==
    /\ \A i, j \in 1..Len(Game.selectedIndices) :
           (i # j /\ Game.selectedIndices[i] # NoIdx)
               => Game.selectedIndices[i] # Game.selectedIndices[j]
    /\ \A i \in 1..Len(Game.selectedIndices) :
           Game.selectedIndices[i] # NoIdx
               => Game.selectedIndices[i] \in 1..Len(Game.scrambledLetters)

\* Three slots filled after a paid hint moved or placed a letter.
C1_Witness ==
    /\ phase = "play"
    /\ Len(Game.selectedIndices) = 3
    /\ \A i \in 1..3 : Game.selectedIndices[i] # NoIdx
    /\ State.coins = StartCoins - HintCost

\* C2: checkWin reports Incomplete whenever a slot is empty; otherwise it
\* reports Win exactly when the characters shown by the slots, in slot
\* order, are those of targetWord, whichever pool entries carry them.
C2_CheckWin ==
    LET empty == \E i \in 1..Len(Game.selectedIndices) :
                     Game.selectedIndices[i] = NoIdx
    IN  /\ empty => checkWin(Game) = "Incomplete"
        /\ ~empty =>
               (checkWin(Game) = "Win"
                   <=> \A i \in 1..Len(Game.targetWord) :
                           SlotChar(Game, i) = Game.targetWord[i])
        /\ ~empty => checkWin(Game) \in {"Win", "Mismatch"}

\* The word AAB spelt with its second A in the first slot; the win is
\* scheduled.
C2_Witness ==
    /\ phase = "play"
    /\ Len(Game.targetWord) = 3
    /\ FullMatch(Game)
    /\ Game.selectedIndices[1] > Game.selectedIndices[2]
    /\ winTimers = 1

\* C3 (as claimed): once the slots of an Attempt spell the target (Won), no
\* later step of that page changes its pool or its slot assignment.
C3_WonIsTerminal ==
    [][(phase = "play" /\ phase' = "play" /\ FullMatch(Game))
          => /\ Game'.scrambledLetters = Game.scrambledLetters
             /\ Game'.selectedIndices = Game.selectedIndices]_vars

\* C4: the handleWin of a level that is the frontier of its pack puts the
\* level into completed, moves the frontier to level + 1 and adds exactly
\* WinReward coins.
C4_WinAtFrontier ==
    [][(/\ WinStep
        /\ Game.currentPackId \in DOMAIN State.unlocked
        /\ State.unlocked[Game.currentPackId] = Game.currentLevelIndex)
          => /\ Game.currentLevelIndex
                    \in State'.completed[Game.currentPackId]
             /\ State'.unlocked[Game.currentPackId]
                    = Game.currentLevelIndex + 1
             /\ State'.coins = State.coins + WinReward]_vars

\* Level 0 of Classic won once from the fresh record.
C4_Witness ==
    /\ phase = "play"
    /\ modal
    /\ Game.currentPackId = "Classic"
    /\ FullMatch(Game)
    /\ State.completed["Classic"] = {0}
    /\ State.unlocked["Classic"] = 1
    /\ State.coins = StartCoins + WinReward

\* What completeLevel owes to State for the current level, coins aside.
CompletionApplied ==
    LET p == Game.currentPackId
        l == Game.currentLevelIndex
        first == ~(p \in DOMAIN State.completed /\ l \in State.completed[p])
    IN  /\ l \in State'.completed[p]
        /\ State'.unlocked[p] = IF State.unlocked[p] = l THEN l + 1
                                ELSE State.unlocked[p]
        /\ State'.stars = IF first /\ StarEligible(p) THEN State.stars + 1
                          ELSE State.stars

\* C5 (as claimed): a skip that went through leaves
\* coins = coins - SkipCost + WinReward.
C5_SkipPaysReward ==
    [][SkipStep => /\ CompletionApplied
                   /\ State'.coins = State.coins - SkipCost + WinReward]_vars

\* C5 (amended): a skip that went through deducts SkipCost, marks the level
\* completed, advances the frontier when it equals the level, applies the
\* first-completion star rule, and pays no win reward.
C5_SkipNoReward ==
    [][SkipStep => /\ CompletionApplied
                   /\ State'.coins = State.coins - SkipCost]_vars

\* Level 0 of Classic skipped from the fresh record.
C5_Witness ==
    /\ modal
    /\ winTimers = 0
    /\ Game.currentPackId = "Classic"
    /\ State.completed["Classic"] = {0}
    /\ State.unlocked["Classic"] = 1
    /\ State.stars = 1
    /\ State.coins = StartCoins - SkipCost

\* C6: a paid hint never decreases the number of correctly filled slots.
C6_HintNeverDecreases ==
    [][HintStep => CorrectSlots(Game)' >= CorrectSlots(Game)]_vars

\* A hint took an entry out of a correct slot: AAB, the first A still
\* missing while the second slot was fixed from the first.
C6_Witness ==
    /\ phase = "play"
    /\ Len(Game.targetWord) = 3
    /\ State.coins = StartCoins - HintCost
    /\ Game.selectedIndices[1] = NoIdx
    /\ Game.selectedIndices[2] # NoIdx
    /\ Game.selectedIndices[3] # NoIdx
    /\ CorrectSlots(Game) = 1

\* C7 (as claimed): a paid hint that changes a slot raises the number of
\* correctly filled slots by exactly one.
C7_HintAddsOne ==
    [][(HintStep /\ Game' # Game)
          => CorrectSlots(Game)' = CorrectSlots(Game) + 1]_vars

\* C8: a hint requested with coins < HintCost, or a skip requested with
\* coins < SkipCost, changes neither State, nor the persisted store, nor the
\* pool, nor the slot assignment.
C8_RefusalMutatesNothing ==
    [][((HintCommand /\ State.coins < HintCost)
        \/ (SkipCommand /\ State.coins < SkipCost))
          => UNCHANGED << State, localStorage, Game, winTimers, modal >>]_vars

\* A refused request: the alert is up and the balance is below HintCost.
C8_Witness ==
    /\ phase = "play"
    /\ alertMsg = "Not enough coins!"
    /\ State.coins < HintCost
    /\ Len(Game.targetWord) > 0

\* C9: over the steps of a page, stars grow by exactly one when a level of
\* a star-eligible pack enters completed for the first time, and by nothing
\* in every other step, a repeated completion of the same level included.
C9_StarOncePerLevel ==
    [][SamePage =>
         State'.stars =
             IF /\ State'.completed # State.completed
                /\ StarEligible(Game.currentPackId)
             THEN State.stars + 1 ELSE State.stars]_vars

\* Level 0 of Classic completed twice (two handleWin callbacks): one star.
C9_Witness ==
    /\ State.coins = StartCoins + WinReward + WinReward
    /\ State.completed["Classic"] = {0}
    /\ State.stars = 1

\* The entry conditions of (packId, levelIndex) on the loaded State.
EntryAllowed(st, dl, packId, levelIndex) ==
    LET items == {dl.packs[i] : i \in 1..Len(dl.packs)}
                 \cup {dl.events[i] : i \in 1..Len(dl.events)}
    IN  /\ \E p \in items :
               /\ p.name = packId
               /\ p.star > 0 => st.stars >= p.star
        /\ packId \in DOMAIN st.unlocked
        /\ st.unlocked[packId] >= levelIndex

\* C10: Game.init goes on to load and build an Attempt only for a pack of
\* the catalog whose star gate is met and whose frontier is at least the
\* level; it redirects for every level above the frontier, and it enters
\* the level equal to the frontier of an unlocked pack.
C10_EntryChecks ==
    [][/\ phase' \in {"loading", "play"}
          => EntryAllowed(State', DataLoader', Game'.currentPackId,
                          Game'.currentLevelIndex)
       /\ (phase = "boot" /\ phase' # "boot" /\ href.page = "game"
           /\ href.id # Null /\ href.level # NaN)
          => /\ (href.id \in DOMAIN State'.unlocked
                 /\ href.level > State'.unlocked[href.id])
                   => phase' = "redirect"
             /\ (/\ EntryAllowed(State', DataLoader', href.id, href.level)
                 /\ href.level = State'.unlocked[href.id])
                   => (phase' = "loading" /\ Game'.currentPackId = href.id
                       /\ Game'.currentLevelIndex = href.level)]_vars

\* The star-gated pack Fest entered at its frontier after a star was earned.
C10_Witness ==
    /\ phase = "play"
    /\ Game.currentPackId = "Fest"
    /\ Game.currentLevelIndex = State.unlocked["Fest"]
    /\ State.stars >= 1

\* C11: Game.init lets no completed level in, no completed level is ever
\* open to input as an Attempt, and a tile of the levels grid opens the
\* answer dialog exactly when its level is completed (every completed level
\* of the grid has its click handler).
C11_CompletedOnlyRevealed ==
    [][/\ (phase = "boot" /\ phase' = "loading")
          => ~isCompleted(State', Game'.currentPackId,
                          Game'.currentLevelIndex)
       /\ (phase' = "play" /\ ~modal')
          => ~isCompleted(State', Game'.currentPackId,
                          Game'.currentLevelIndex)
       /\ \A i \in 0..MaxLevel :
              LevelClick(i)
                 => /\ (Album' # Album) <=> isCompleted(State, Album.packId, i)
                    /\ (phase' = "redirect")
                          <=> ~isCompleted(State, Album.packId, i)
       /\ phase' = "album"
          => \A i \in 0..(getPack(DataLoader', Album'.packId).lvls - 1) :
                 isCompleted(State', Album'.packId, i)
                    => isLevelUnlocked(State', Album'.packId, i)]_vars

\* The answer dialog shows completed level 0 of the album's pack.
C11_Witness ==
    /\ phase = "album"
    /\ Album.dialog = 0
    /\ isCompleted(State, Album.packId, 0)

\* C12 (as claimed): while the word list of the level is still being
\* fetched, no command changes State, the persisted store or Game.
C12_NoCommandBeforeLoad ==
    [][(phase = "loading" /\ phase' = "loading")
          => UNCHANGED << State, localStorage, Game >>]_vars

\* C13 (as claimed): getPack of the identifier of every loaded catalog item
\* is that item.
C13_ResolveById ==
    /\ \A i \in 1..Len(DataLoader.packs) :
           getPack(DataLoader, DataLoader.packs[i].id) = DataLoader.packs[i]
    /\ \A i \in 1..Len(DataLoader.events) :
           getPack(DataLoader, DataLoader.events[i].id) = DataLoader.events[i]

\* C14 (as claimed): one page fetches the word list of a pack at most once.
C14_FetchedOnce ==
    \A p \in DOMAIN fetchCount : fetchCount[p] <= 1

\* C15 (as claimed): once DataLoader.init has recorded an error, packs and
\* events are both empty.
C15_FailureEmptiesCatalog ==
    DataLoader.error # Null
        => (DataLoader.packs = << >> /\ DataLoader.events = << >>)

\* C16 (as claimed): the Attempt Game.init builds never has zero slots.
C16_NoZeroSlotAttempt ==
    phase = "play" => Len(Game.targetWord) > 0

\* The characters of the pool, in pool order.
PoolChars(g) ==
    [i \in 1..Len(g.scrambledLetters) |-> g.scrambledLetters[i].char]

\* Equal as multisets of characters.
IsPermutation(a, b) ==
    /\ Len(a) = Len(b)
    /\ \A c \in {a[i] : i \in 1..Len(a)} \cup {b[i] : i \in 1..Len(b)} :
           Cardinality({i \in 1..Len(a) : a[i] = c})
               = Cardinality({i \in 1..Len(b) : b[i] = c})

\* C17: after Game.init builds the Attempt and after every reset, the pool
\* is a permutation of the letters of targetWord, there is one slot per
\* letter and every slot is empty; reset leaves targetWord as it was.
C17_ResetGivesPermutation ==
    [][(WordsLoaded \/ ResetCommand)
          => /\ IsPermutation(PoolChars(Game'), Game'.targetWord)
             /\ Len(Game'.selectedIndices) = Len(Game'.targetWord)
             /\ \A i \in 1..Len(Game'.selectedIndices) :
                    Game'.selectedIndices[i] = NoIdx
             /\ ResetCommand => Game'.targetWord = Game.targetWord]_vars

\* A three-letter Attempt, nothing placed, whose pool is not in target order.
C17_Witness ==
    /\ phase = "play"
    /\ Len(Game.targetWord) = 3
    /\ PoolChars(Game) # Game.targetWord
    /\ \A i \in 1..3 : Game.selectedIndices[i] = NoIdx

\* The progress a page load would read from the persisted store.
Persisted == StateLoad(StateObject, localStorage)

\* No frontier is lower and no completed level is missing in b.
ProgressKept(a, b) ==
    /\ \A p \in DOMAIN a.unlocked :
           p \in DOMAIN b.unlocked /\ b.unlocked[p] >= a.unlocked[p]
    /\ \A p \in DOMAIN a.completed :
           p \in DOMAIN b.completed /\ a.completed[p] \subseteq b.completed[p]

\* C18: no step of a page lowers a frontier or removes a completed level,
\* in State and in the persisted store, and a page load reads back at least
\* what was persisted.
C18_ProgressOnlyGrows ==
    [][/\ (SamePage /\ State' # State) => ProgressKept(State, State')
       /\ localStorage' # localStorage
          => ProgressKept(Persisted, Persisted')
       /\ (phase = "boot" /\ phase' # "boot")
          => ProgressKept(Persisted, State')]_vars

\* Both levels of Classic completed, one after the other.
C18_Witness ==
    /\ "Classic" \in DOMAIN State.completed
    /\ State.completed["Classic"] = {0, 1}
    /\ State.unlocked["Classic"] = 2

\* C19: coins and stars are never negative, in State and as persisted.
C19_NonNegative ==
    /\ State.coins >= 0
    /\ State.stars >= 0
    /\ Persisted.coins >= 0
    /\ Persisted.stars >= 0

\* The balance spent down to exactly zero during play.
C19_Witness ==
    /\ phase = "play"
    /\ State.coins = 0
    /\ Persisted.coins = 0

\* selectLetter put index into the leftmost empty slot and touched nothing
\* else.
PlacedLeftmost(index) ==
    LET empty == {i \in 1..Len(Game.selectedIndices) :
                     Game.selectedIndices[i] = NoIdx}
    IN  /\ empty # {}
        /\ \E e \in empty :
               /\ \A j \in empty : e <= j
               /\ Game'.selectedIndices
                      = [Game.selectedIndices EXCEPT ![e] = index]
        /\ Game'.scrambledLetters = Game.scrambledLetters
        /\ Game'.targetWord = Game.targetWord

\* C20: a tile click or a letter key that selects an unplaced entry writes
\* it into the leftmost empty slot and changes no other slot and no pool
\* entry; with every slot filled selectLetter changes nothing and does not
\* call checkWin.
C20_SelectFillsLeftmost ==
    [][/\ \A index \in 1..Len(Game.scrambledLetters) :
              TileClick(index) => PlacedLeftmost(index)
       /\ \A key \in LetterKeys :
              (LetterKey(key) /\ Game' # Game)
                 => \E index \in 1..Len(Game.scrambledLetters) :
                        /\ Game.scrambledLetters[index].char = key
                        /\ ~isScrambledIndexSelected(Game, index)
                        /\ PlacedLeftmost(index)
       /\ (\A i \in 1..Len(Game.selectedIndices) :
               Game.selectedIndices[i] # NoIdx)
          => \A index \in 1..Len(Game.scrambledLetters) :
                 selectLetter(Game, index) = [Game |-> Game, check |-> "none"]
      ]_vars

\* A slot emptied in the middle was refilled: the first and third slot were
\* filled, then the second, with no hint used.
C20_Witness ==
    /\ phase = "play"
    /\ Len(Game.selectedIndices) = 3
    /\ Game.selectedIndices[1] = 1
    /\ Game.selectedIndices[2] = 3
    /\ Game.selectedIndices[3] = 2
    /\ State.coins = StartCoins
    /\ winTimers = 0

\* C21: in every reachable Attempt with an empty slot, selectLetter of any
\* pool entry followed by deselectLetter on the slot it filled gives back
\* the slot assignment it started from, and the pool is the same throughout.
C21_SelectThenDeselect ==
    \A index \in 1..Len(Game.scrambledLetters) :
        (\E i \in 1..Len(Game.selectedIndices) :
             Game.selectedIndices[i] = NoIdx)
           => LET r == selectLetter(Game, index)
                  filled == {i \in 1..Len(Game.selectedIndices) :
                                r.Game.selectedIndices[i]
                                    # Game.selectedIndices[i]}
              IN  /\ Cardinality(filled) = 1
                  /\ r.Game.scrambledLetters = Game.scrambledLetters
                  /\ \A e \in filled :
                         /\ r.Game.selectedIndices[e] = index
                         /\ deselectLetter(r.Game, e) = Game

\* The middle slot was filled and emptied again between two filled slots.
C21_Witness ==
    /\ phase = "play"
    /\ Len(Game.selectedIndices) = 3
    /\ Game.selectedIndices[1] # NoIdx
    /\ Game.selectedIndices[2] = NoIdx
    /\ Game.selectedIndices[3] # NoIdx
    /\ State.coins = StartCoins
    /\ alertMsg = "none"

\* C22: a handleWin or a skip of level l of pack p moves unlocked[p] to
\* l + 1 when it was l and leaves it alone otherwise; the frontier of every
\* other pack, and the set of packs that have one, stay as they were.
C22_FrontierFrame ==
    [][(State' # State /\ (WinStep \/ SkipStep))
          => /\ DOMAIN State'.unlocked = DOMAIN State.unlocked
             /\ \A q \in DOMAIN State.unlocked :
                    State'.unlocked[q]
                        = IF /\ q = Game.currentPackId
                             /\ State.unlocked[q] = Game.currentLevelIndex
                          THEN Game.currentLevelIndex + 1
                          ELSE State.unlocked[q]]_vars

\* handleWin ran twice for level 0 of Classic: the second run found the
\* frontier at 1 and left it there; the other frontiers are still 0.
C22_Witness ==
    /\ phase = "play"
    /\ Game.currentPackId = "Classic"
    /\ Game.currentLevelIndex = 0
    /\ State.coins = StartCoins + WinReward + WinReward
    /\ State.unlocked["Classic"] = 1
    /\ \A q \in DOMAIN State.unlocked : q # "Classic" => State.unlocked[q] = 0

\* C23: a paid hint with a slot to fix (the leftmost empty or wrong one)
\* takes an unplaced pool entry carrying the required character whenever
\* there is one and then changes that slot only; when there is none it
\* takes a placed entry carrying the character and empties exactly the slot
\* that entry was in. The pool is not changed.
C23_HintFrame ==
    [][(HintStep /\ phase = "play" /\ Len(Game.targetWord) > 0)
          => LET slots == 1..Len(Game.selectedIndices)
                 bad == {i \in slots : SlotChar(Game, i) # Game.targetWord[i]}
                 free == {i \in 1..Len(Game.scrambledLetters) :
                             ~isScrambledIndexSelected(Game, i)}
             IN  /\ Game'.scrambledLetters = Game.scrambledLetters
                 /\ \A s \in bad :
                        (\A j \in bad : s <= j)
                           => LET want == {i \in free :
                                              Game.scrambledLetters[i].char
                                                  = Game.targetWord[s]}
                              IN  IF want # {}
                                  THEN /\ Game'.selectedIndices[s] \in want
                                       /\ \A j \in slots \ {s} :
                                              Game'.selectedIndices[j]
                                                  = Game.selectedIndices[j]
                                  ELSE \E o \in slots \ {s} :
                                         /\ SlotChar(Game, o)
                                                = Game.targetWord[s]
                                         /\ Game'.selectedIndices[s]
                                                = Game.selectedIndices[o]
                                         /\ Game'.selectedIndices[o] = NoIdx
                                         /\ \A j \in slots \ {s, o} :
                                                Game'.selectedIndices[j]
                                                    = Game.selectedIndices[j]
      ]_vars

\* The B stood in the third slot and a hint put an unplaced A into the
\* first one; the third slot kept its entry.
C23_Witness ==
    /\ phase = "play"
    /\ Len(Game.targetWord) = 3
    /\ State.coins = StartCoins - HintCost
    /\ Game.selectedIndices[1] # NoIdx
    /\ Game.selectedIndices[2] = NoIdx
    /\ Game.selectedIndices[3] # NoIdx
    /\ CorrectSlots(Game) = 2

\* The items DataLoader holds whose identifier has a frontier in State.
LoadedItems ==
    {it \in {DataLoader.packs[i] : i \in 1..Len(DataLoader.packs)}
            \cup {DataLoader.events[i] : i \in 1..Len(DataLoader.events)} :
        it.id \in DOMAIN State.unlocked}

\* C24 (as claimed): the frontier of every pack is one of its level
\* indices, 0 <= unlocked[p] < pack.lvls.
C24_FrontierIsLevel ==
    \A it \in LoadedItems :
        /\ State.unlocked[it.id] >= 0
        /\ State.unlocked[it.id] < it.lvls

\* C25 (as claimed): a hint that is paid for changes the slot assignment of
\* the Attempt in play.
C25_PaidHintChangesSlots ==
    [][(HintStep /\ phase = "play" /\ Len(Game.targetWord) > 0)
          => Game'.selectedIndices # Game.selectedIndices]_vars

RECURSIVE HintRun(_, _)
\* Hints and nothing else, from Attempt g, every one paid for: TRUE when the
\* run comes to slots spelling the target, FALSE when it comes back to an
\* Attempt it has been in (seen) without getting there.
HintRun(g, seen) ==
    IF FullMatch(g) THEN TRUE
    ELSE IF g \in seen THEN FALSE
    ELSE HintRun(applyHint(g).Game, seen \cup {g})

\* C26 (as claimed): from every reachable Attempt with letters, hints alone
\* lead to slots spelling the target; no run of hints comes back to an
\* Attempt it has left.
C26_HintsReachFullMatch ==
    (phase = "play" /\ Len(Game.targetWord) > 0) => HintRun(Game, {})

\* C27 (as claimed): handleWin runs only while the slots spell the target
\* and only when the level attempt has not been finished before (the
\* completion modal is not open yet).
C27_WinOnceWhileMatching ==
    [][WinStep => (FullMatch(Game) /\ ~modal)]_vars

====
